---- MODULE Spec2Model ----
(***************************************************************************)
(* A model of tide-fluent-routes: the path accumulator (src/src/path.rs),  *)
(* the route tree and its fluent builder (src/src/lib.rs and               *)
(* src/src/routesegment.rs), the flattener `build`, and the reverse router *)
(* (src/src/reverse_router.rs).                                            *)
(*                                                                         *)
(* A string is a sequence of one-character strings, so that trimming and   *)
(* concatenation are computed, not assumed.  Option<T> is a sequence of    *)
(* length 0 (None) or 1 (Some).  Result<T> is a record [ok, val].          *)
(***************************************************************************)
EXTENDS Naturals, Sequences, FiniteSets, TLC

VARIABLES
    acc,         \* PathSpec: the Path under construction (Path.0)
    before,      \* PathSpec: the Path the last join was called on
    joined,      \* PathSpec: the segments joined so far, in order
    stack,       \* Spec: builder values, one per open scope; stack[1] is the root chain
    scopes,      \* Spec: the at/with call that opened each scope above the root
    calls,       \* Spec: number of builder calls made so far
    lastCall,    \* Spec: the last builder call, the value it was made on, its argument
    decl,        \* Spec: per endpoint declared, the scopes open at its declaration
    nameLog,     \* Spec: per successful name call, the name and the open scopes
    origErr,     \* Spec: the first error a closure returned, if any
    phase,       \* Spec: "building", "routed", "built" or "panicked"
    descriptors, \* Spec: Option of the Vec<RouteDescriptor> build returned
    server,      \* Spec: the routes registered on the tide::Server, in order
    router,      \* Spec: Option of the ReverseRouter reverse_router returned
    resolved     \* Spec: Option of the outcome of the last resolve call

pathVars == <<acc, before, joined>>
treeVars == <<stack, scopes, calls, lastCall, decl, nameLog, origErr, phase, descriptors,
              server, router, resolved>>
vars == <<acc, before, joined, stack, scopes, calls, lastCall, decl, nameLog, origErr,
          phase, descriptors, server, router, resolved>>

----------------------------------------------------------------------------
(* Bounds *)

MaxSegLen == 3      \* longest segment handed to Path::join
MaxJoins == 3       \* joins in one chain
MaxCalls == 4       \* builder calls in one construction

----------------------------------------------------------------------------
(* Option and Result *)

None == <<>>
Some(x) == <<x>>
IsSome(o) == Len(o) = 1
Unwrap(o) == o[1]

Ok(v) == [ok |-> TRUE, val |-> v]
Err(e) == [ok |-> FALSE, val |-> e]

----------------------------------------------------------------------------
(* Strings and src/src/path.rs *)

Chars == {"/", "t"}

RECURSIVE StringsOfLen(_)
StringsOfLen(n) ==
    IF n = 0 THEN {<<>>}
    ELSE {Append(s, c) : s \in StringsOfLen(n - 1), c \in Chars}

StringsUpTo(n) == UNION {StringsOfLen(k) : k \in 0..n}

\* str::trim_end_matches('/')
RECURSIVE trim_end_matches(_)
trim_end_matches(s) ==
    IF s = <<>> \/ s[Len(s)] # "/" THEN s
    ELSE trim_end_matches(SubSeq(s, 1, Len(s) - 1))

\* str::trim_start_matches('/')
RECURSIVE trim_start_matches(_)
trim_start_matches(s) ==
    IF s = <<>> \/ s[1] # "/" THEN s
    ELSE trim_start_matches(SubSeq(s, 2, Len(s)))

\* Path::new
PathNew == <<>>

\* A join that trims and separates even when the path is empty.
join_always_separates(self, segment) ==
    trim_end_matches(self) \o <<"/">> \o trim_start_matches(segment)

\* A join that forgets to trim the path's trailing slashes.
join_keeps_trailing(self, segment) ==
    IF self = <<>> THEN segment
    ELSE self \o <<"/">> \o trim_start_matches(segment)

\* A join that pushes no separator when the segment brings nothing after
\* its leading slashes.
join_drops_last_separator(self, segment) ==
    IF self = <<>> THEN segment
    ELSE IF trim_start_matches(segment) = <<>> THEN trim_end_matches(self)
    ELSE trim_end_matches(self) \o <<"/">> \o trim_start_matches(segment)

\* A join that leaves the segment's leading slashes in place.
join_keeps_leading(self, segment) ==
    IF self = <<>> THEN segment
    ELSE trim_end_matches(self) \o <<"/">> \o segment

\* s with every run of slashes shortened to one slash
RECURSIVE CollapseRuns(_)
CollapseRuns(s) ==
    IF Len(s) < 2 THEN s
    ELSE IF s[1] = "/" /\ s[2] = "/" THEN CollapseRuns(Tail(s))
    ELSE <<s[1]>> \o CollapseRuns(Tail(s))

\* A join that also collapses the runs of slashes inside the segment.
join_collapses_inner(self, segment) ==
    IF self = <<>> THEN segment
    ELSE trim_end_matches(self) \o <<"/">> \o CollapseRuns(trim_start_matches(segment))

\* Path::join
join(self, segment) ==
    IF self = <<>> THEN segment
    ELSE trim_end_matches(self) \o <<"/">> \o trim_start_matches(segment)

\* Path::to_string: a clone of the inner String
to_string(self) == self

----------------------------------------------------------------------------
(* PathSpec: Path::new() followed by a chain of join calls, as in the      *)
(* tests of src/src/path.rs.                                               *)

InitPath ==
    /\ acc = PathNew
    /\ before = PathNew
    /\ joined = <<>>

Join(segment) ==
    /\ Len(joined) < MaxJoins
    /\ before' = acc
    /\ acc' = join(acc, segment)
    /\ joined' = Append(joined, segment)

----------------------------------------------------------------------------
(* Inputs of the builder *)

Segments ==
    { <<"p", "a", "t", "h">>,
      <<"s", "u", "b", "p", "a", "t", "h">>,
      <<"a", "p", "i", "/", "v", "1">> }
Methods == {"GET", "POST"}          \* tide::http::Method, two of its values
Middlewares == {"mw1", "mw2"}       \* opaque middleware values
Names == {"articles", "users"}
Errors == {"e1"}                    \* errors a routing closure may return

----------------------------------------------------------------------------
(* HashMap<K, V>: a function on the set of its keys *)

EmptyMap == [k \in {} |-> k]

\* An insert that leaves the value of an existing key in place.
MapInsert_keeps_first(m, k, v) ==
    [x \in (DOMAIN m) \cup {k} |-> IF x \in DOMAIN m THEN m[x] ELSE v]

\* HashMap::insert: the value under an existing key is replaced
MapInsert(m, k, v) == [x \in (DOMAIN m) \cup {k} |-> IF x = k THEN v ELSE m[x]]

\* The orders in which HashMap::into_iter may yield the keys: any order.
Orders(S) ==
    {o \in [1..Cardinality(S) -> S] : \A i, j \in 1..Cardinality(S) : o[i] = o[j] => i = j}

----------------------------------------------------------------------------
(* Path::prefix and Path::append, used by lib.rs and routesegment.rs but   *)
(* absent from the path.rs at hand: modelled from the specification (the   *)
(* root path is "/", a child's path is join(self.path, segment)).          *)

prefix(s) == s

append(self, segment) == join(self, segment)

----------------------------------------------------------------------------
(* RouteSegment, RouteDescriptor, Route *)

RouteSegment(path, middleware) ==
    [path |-> path, middleware |-> middleware, name |-> None,
     branches |-> <<>>, endpoints |-> EmptyMap]

Handler(method, endpoint) == [kind |-> "Handler", method |-> method, endpoint |-> endpoint]
RouteName(name) == [kind |-> "Name", name |-> name]

RouteDescriptor(path, middleware, route) ==
    [path |-> path, middleware |-> middleware, route |-> route]

\* root(): Ok of a segment at "/", with nothing in it
root == Ok(RouteSegment(prefix(<<"/">>), <<>>))

\* What a call does: it returns a value, or it panics.
Returned(v) == [panic |-> FALSE, val |-> v]
Panicked(msg) == [panic |-> TRUE, val |-> msg]

----------------------------------------------------------------------------
(* RouteBuilder for Result<RouteSegment> (routesegment.rs); the Ok arms    *)
(* are the bodies of RouteBuilder for RouteSegment (lib.rs).               *)

\* An at that starts the branch's path from the root instead of the parent.
at_branch_from_root(segment, path) ==
    RouteSegment(append(prefix(<<"/">>), path), segment.middleware)

\* at: the segment handed to the closure `routes`
at_branch(segment, path) ==
    RouteSegment(append(segment.path, path), segment.middleware)

\* A with that puts the new middleware in front of the inherited chain.
with_branch_prepends(segment, middleware) ==
    RouteSegment(segment.path, <<middleware>> \o segment.middleware)

\* with: the segment handed to the closure `routes`
with_branch(segment, middleware) ==
    RouteSegment(segment.path, Append(segment.middleware, middleware))

\* A push that drops a failed branch and keeps the parent.
push_branch_swallows_error(segment, r) ==
    IF r.ok THEN Ok([segment EXCEPT !.branches = Append(@, r.val)])
    ELSE Ok(segment)

\* at / with after the closure returned r: `segment.branches.push(r?); Ok(segment)`
push_branch(segment, r) ==
    IF r.ok THEN Ok([segment EXCEPT !.branches = Append(@, r.val)])
    ELSE Err(r.val)

\* at / with on an Err value: `Err(e) => Err(e)`, the closure is not called
scope_on_err(e) == Err(e)

method(self, m, endpoint) ==
    IF self.ok
    THEN Ok([self.val EXCEPT !.endpoints = MapInsert(@, Some(m), endpoint)])
    ELSE Err(self.val)

all(self, endpoint) ==
    IF self.ok
    THEN Ok([self.val EXCEPT !.endpoints = MapInsert(@, None, endpoint)])
    ELSE Err(self.val)

name(self, n) ==
    IF self.ok
    THEN IF IsSome(self.val.name)
         THEN Panicked(<<"route already has name", Unwrap(self.val.name)>>)
         ELSE Returned(Ok([self.val EXCEPT !.name = Some(n)]))
    ELSE Returned(Err(self.val))

----------------------------------------------------------------------------
(* RouteSegment::build, names, reverse_router; ReverseRouter *)

RECURSIVE build(_), flat_map_build(_)

\* A build that forgets the branches.
build_local_only(self) ==
    { [i \in 1..Len(o) |->
          RouteDescriptor(self.path, self.middleware,
                          Handler(o[i], self.endpoints[o[i]]))] :
      o \in Orders(DOMAIN self.endpoints) }

\* A build that emits the branches before the node's own endpoints.
build_branches_first(self) ==
    LET local_endpoints ==
            { [i \in 1..Len(o) |->
                  RouteDescriptor(self.path, self.middleware,
                                  Handler(o[i], self.endpoints[o[i]]))] :
              o \in Orders(DOMAIN self.endpoints) }
    IN  {s \o l : l \in local_endpoints, s \in flat_map_build(self.branches)}

\* The set of vectors build may return, one per iteration order of the
\* endpoint maps.
build(self) ==
    LET local_endpoints ==
            { [i \in 1..Len(o) |->
                  RouteDescriptor(self.path, self.middleware,
                                  Handler(o[i], self.endpoints[o[i]]))] :
              o \in Orders(DOMAIN self.endpoints) }
        sub_endpoints == flat_map_build(self.branches)
    IN  {l \o s : l \in local_endpoints, s \in sub_endpoints}

flat_map_build(branches) ==
    IF branches = <<>> THEN {<<>>}
    ELSE {h \o t : h \in build(Head(branches)), t \in flat_map_build(Tail(branches))}

RECURSIVE names(_), flat_map_names(_)

\* A names that forgets the branches.
names_local_only(self) ==
    IF IsSome(self.name)
    THEN <<RouteDescriptor(self.path, <<>>, RouteName(Unwrap(self.name)))>>
    ELSE <<>>

names(self) ==
    LET local_name ==
            IF IsSome(self.name)
            THEN <<RouteDescriptor(self.path, <<>>, RouteName(Unwrap(self.name)))>>
            ELSE <<>>
    IN  local_name \o flat_map_names(self.branches)

flat_map_names(branches) ==
    IF branches = <<>> THEN <<>>
    ELSE names(Head(branches)) \o flat_map_names(Tail(branches))

\* ReverseRouter::new
ReverseRouterNew == [routes |-> EmptyMap]

\* An insert that keeps the route a name already has.
insert_keeps_first(self, n, route) ==
    IF n \in DOMAIN self.routes THEN self
    ELSE [routes |-> MapInsert(self.routes, n, route)]

\* ReverseRouter::insert
insert(self, n, route) == [routes |-> MapInsert(self.routes, n, route)]

\* ReverseRouter::resolve: HashMap indexing panics on a missing key
resolve(self, n) ==
    IF n \in DOMAIN self.routes THEN Returned(self.routes[n])
    ELSE Panicked("key not found")

RECURSIVE insert_all(_, _)
insert_all(routes, ds) ==
    IF ds = <<>> THEN routes
    ELSE insert_all(
           IF Head(ds).route.kind = "Name"
           THEN insert(routes, Head(ds).route.name, to_string(Head(ds).path))
           ELSE routes,
           Tail(ds))

reverse_router(self) == insert_all(ReverseRouterNew, names(self))

----------------------------------------------------------------------------
(* Router for tide::Server (router.rs).  Of tide, what register_endpoint   *)
(* uses: Server::at gives a new Route at a path with no middleware of its  *)
(* own, Route::with pushes onto that Route's own chain, Route::method and  *)
(* Route::all add the endpoint wrapped by the chain of the Route they are  *)
(* called on.                                                              *)

\* tide::Server::new
ServerNew == <<>>

\* tide::Server::at
server_at(path) == [path |-> path, middleware |-> <<>>]

\* tide::Route::with
route_with(route, middleware) ==
    [route EXCEPT !.middleware = Append(@, middleware)]

\* tide::Route::method
route_method(self, route, m, endpoint) ==
    Append(self, [path |-> route.path, method |-> Some(m),
                  middleware |-> route.middleware, endpoint |-> endpoint])

\* tide::Route::all
route_all(self, route, endpoint) ==
    Append(self, [path |-> route.path, method |-> None,
                  middleware |-> route.middleware, endpoint |-> endpoint])

\* `for ware in middleware { route.with(ware.clone()); }`
RECURSIVE with_each(_, _)
with_each(route, middleware) ==
    IF middleware = <<>> THEN route
    ELSE with_each(route_with(route, Head(middleware)), Tail(middleware))

\* Router::register_endpoint for tide::Server: `route` carries the
\* middleware, the endpoint is added on a second self.at(path).
register_endpoint(self, path, m, middleware, endpoint) ==
    LET route == with_each(server_at(path), middleware)
    IN  IF IsSome(m)
        THEN route_method(self, server_at(path), Unwrap(m), endpoint)
        ELSE route_all(self, server_at(path), endpoint)

\* Router::register, the loop over builder.build()
RECURSIVE register(_, _)
register(self, ds) ==
    IF ds = <<>> THEN self
    ELSE register(
           IF Head(ds).route.kind = "Handler"
           THEN register_endpoint(self, to_string(Head(ds).path), Head(ds).route.method,
                                  Head(ds).middleware, Head(ds).route.endpoint)
           ELSE self,
           Tail(ds))

----------------------------------------------------------------------------
(* Spec: one construction of a route tree, then reverse_router, resolve    *)
(* and build on it.                                                        *)

Top == stack[Len(stack)]
SetTop(v) == [stack EXCEPT ![Len(stack)] = v]

InitTree ==
    /\ stack = <<root>>
    /\ scopes = <<>>
    /\ calls = 0
    /\ lastCall = [op |-> "root", self |-> None, arg |-> None]
    /\ decl = <<>>
    /\ nameLog = <<>>
    /\ origErr = None
    /\ phase = "building"
    /\ descriptors = None
    /\ server = ServerNew
    /\ router = None
    /\ resolved = None

Init == InitPath /\ InitTree

CanCall == phase = "building" /\ calls < MaxCalls

\* self.at(path, routes), up to the call of routes
At(path) ==
    /\ CanCall
    /\ calls' = calls + 1
    /\ lastCall' = [op |-> "at", self |-> Some(Top), arg |-> Some(path)]
    /\ IF Top.ok
       THEN /\ stack' = Append(stack, Ok(at_branch(Top.val, path)))
            /\ scopes' = Append(scopes, [kind |-> "at", arg |-> path])
       ELSE /\ stack' = SetTop(scope_on_err(Top.val))
            /\ scopes' = scopes
    /\ UNCHANGED <<decl, nameLog, origErr, phase, descriptors, server, router, resolved>>

\* self.with(middleware, routes), up to the call of routes
With(middleware) ==
    /\ CanCall
    /\ calls' = calls + 1
    /\ lastCall' = [op |-> "with", self |-> Some(Top), arg |-> Some(middleware)]
    /\ IF Top.ok
       THEN /\ stack' = Append(stack, Ok(with_branch(Top.val, middleware)))
            /\ scopes' = Append(scopes, [kind |-> "with", arg |-> middleware])
       ELSE /\ stack' = SetTop(scope_on_err(Top.val))
            /\ scopes' = scopes
    /\ UNCHANGED <<decl, nameLog, origErr, phase, descriptors, server, router, resolved>>

\* The closure of the innermost open at / with returns its builder value.
Return ==
    /\ phase = "building"
    /\ Len(stack) > 1
    /\ lastCall' = [op |-> "return", self |-> Some(Top), arg |-> None]
    /\ stack' = Append(SubSeq(stack, 1, Len(stack) - 2),
                       push_branch(stack[Len(stack) - 1].val, Top))
    /\ scopes' = SubSeq(scopes, 1, Len(scopes) - 1)
    /\ UNCHANGED <<calls, decl, nameLog, origErr, phase, descriptors, server, router, resolved>>

\* A routing closure gives up on its segment and continues with Err(e).
ClosureErr(e) ==
    /\ phase = "building"
    /\ Len(stack) > 1
    /\ Top.ok
    /\ lastCall' = [op |-> "fail", self |-> Some(Top), arg |-> Some(e)]
    /\ stack' = SetTop(Err(e))
    /\ origErr' = Some(e)
    /\ UNCHANGED <<scopes, calls, decl, nameLog, phase, descriptors, server, router, resolved>>

\* self.method(m, endpoint) and the verb shortcuts get, post, ...; the
\* endpoint is a fresh opaque value, numbered by its declaration.
Method(m) ==
    /\ CanCall
    /\ calls' = calls + 1
    /\ lastCall' = [op |-> "method", self |-> Some(Top), arg |-> Some(m)]
    /\ stack' = SetTop(method(Top, m, Len(decl) + 1))
    /\ decl' = IF Top.ok THEN Append(decl, scopes) ELSE decl
    /\ UNCHANGED <<scopes, nameLog, origErr, phase, descriptors, server, router, resolved>>

\* self.all(endpoint)
All ==
    /\ CanCall
    /\ calls' = calls + 1
    /\ lastCall' = [op |-> "all", self |-> Some(Top), arg |-> None]
    /\ stack' = SetTop(all(Top, Len(decl) + 1))
    /\ decl' = IF Top.ok THEN Append(decl, scopes) ELSE decl
    /\ UNCHANGED <<scopes, nameLog, origErr, phase, descriptors, server, router, resolved>>

\* self.name(n)
Name(n) ==
    /\ CanCall
    /\ calls' = calls + 1
    /\ lastCall' = [op |-> "name", self |-> Some(Top), arg |-> Some(n)]
    /\ LET out == name(Top, n)
       IN  IF out.panic
           THEN /\ phase' = "panicked"
                /\ UNCHANGED <<stack, nameLog>>
           ELSE /\ phase' = phase
                /\ stack' = SetTop(out.val)
                /\ nameLog' = IF Top.ok
                              THEN Append(nameLog, [name |-> n, trail |-> scopes])
                              ELSE nameLog
    /\ UNCHANGED <<scopes, decl, origErr, descriptors, server, router, resolved>>

\* The finished tree: the root chain's value once every closure has returned.
HasTree == Len(stack) = 1 /\ Top.ok
Tree == stack[1].val

\* node and its branches with their names taken out
RECURSIVE StripNames(_)
StripNames(node) ==
    [node EXCEPT !.name = None,
                 !.branches = [i \in 1..Len(node.branches) |-> StripNames(node.branches[i])]]

\* A reverse_router that takes the names out of the nodes it visits.
ReverseRouter_takes_names ==
    /\ phase \in {"building", "routed"}
    /\ HasTree
    /\ router' = Some(reverse_router(Tree))
    /\ stack' = <<Ok(StripNames(Tree))>>
    /\ phase' = "routed"
    /\ UNCHANGED <<scopes, calls, lastCall, decl, nameLog, origErr, descriptors, server, resolved>>

\* tree.reverse_router()
ReverseRouter ==
    /\ phase \in {"building", "routed"}
    /\ HasTree
    /\ router' = Some(reverse_router(Tree))
    /\ phase' = "routed"
    /\ UNCHANGED <<stack, scopes, calls, lastCall, decl, nameLog, origErr, descriptors, server, resolved>>

\* router.resolve(n, params)
Resolve(n) ==
    /\ phase \in {"routed", "built"}
    /\ IsSome(router)
    /\ LET out == resolve(Unwrap(router), n)
       IN  /\ resolved' = Some([name |-> n, out |-> out])
           /\ phase' = IF out.panic THEN "panicked" ELSE phase
    /\ UNCHANGED <<stack, scopes, calls, lastCall, decl, nameLog, origErr, descriptors, server, router>>

\* server.register(tree): tree.build() and register_endpoint for every
\* descriptor; the tree is moved into the call, stack[1] remains as the
\* record of what was built.
Build ==
    /\ phase \in {"building", "routed"}
    /\ HasTree
    /\ \E v \in build(Tree) :
           /\ descriptors' = Some(v)
           /\ server' = register(server, v)
    /\ phase' = "built"
    /\ UNCHANGED <<stack, scopes, calls, lastCall, decl, nameLog, origErr, router, resolved>>

Next ==
    \/ \E path \in Segments : At(path) /\ UNCHANGED pathVars
    \/ \E middleware \in Middlewares : With(middleware) /\ UNCHANGED pathVars
    \/ Return /\ UNCHANGED pathVars
    \/ \E e \in Errors : ClosureErr(e) /\ UNCHANGED pathVars
    \/ \E m \in Methods : Method(m) /\ UNCHANGED pathVars
    \/ All /\ UNCHANGED pathVars
    \/ \E n \in Names : Name(n) /\ UNCHANGED pathVars
    \/ ReverseRouter /\ UNCHANGED pathVars
    \/ \E n \in Names : Resolve(n) /\ UNCHANGED pathVars
    \/ Build /\ UNCHANGED pathVars

Spec == Init /\ [][Next]_vars

\* A segment with a run of slashes strictly inside it
InnerRunSegments == { <<"b", "/", "/", "c">> }

PathNext ==
    \E segment \in StringsUpTo(MaxSegLen) \cup InnerRunSegments :
        Join(segment) /\ UNCHANGED treeVars

PathSpec == Init /\ [][PathNext]_vars

----------------------------------------------------------------------------
(* What the open scopes of a declaration say its node must carry *)

\* The middleware of the `with` scopes of a trail, outermost first
RECURSIVE WithArgs(_)
WithArgs(trail) ==
    IF trail = <<>> THEN <<>>
    ELSE (IF Head(trail).kind = "with" THEN <<Head(trail).arg>> ELSE <<>>)
         \o WithArgs(Tail(trail))

\* p joined, in order, with the segments of the `at` scopes of a trail
RECURSIVE JoinAll(_, _)
JoinAll(p, trail) ==
    IF trail = <<>> THEN p
    ELSE JoinAll(IF Head(trail).kind = "at" THEN join(p, Head(trail).arg) ELSE p,
                 Tail(trail))

\* The endpoints held in a tree: the values of every node's endpoint map
RECURSIVE EndpointsOf(_), EndpointsOfAll(_)
EndpointsOf(node) ==
    {node.endpoints[k] : k \in DOMAIN node.endpoints} \cup EndpointsOfAll(node.branches)
EndpointsOfAll(branches) ==
    IF branches = <<>> THEN {}
    ELSE EndpointsOf(Head(branches)) \cup EndpointsOfAll(Tail(branches))

\* The sum, over the nodes of a tree, of the sizes of their endpoint maps
RECURSIVE CountEndpoints(_), CountEndpointsAll(_)
CountEndpoints(node) ==
    Cardinality(DOMAIN node.endpoints) + CountEndpointsAll(node.branches)
CountEndpointsAll(branches) ==
    IF branches = <<>> THEN 0
    ELSE CountEndpoints(Head(branches)) + CountEndpointsAll(Tail(branches))

Built == Unwrap(descriptors)
Last(s) == s[Len(s)]
AllSlashes(s) == \A i \in 1..Len(s) : s[i] = "/"

Str_path == <<"p", "a", "t", "h">>
Str_subpath == <<"s", "u", "b", "p", "a", "t", "h">>
Str_api_v1 == <<"a", "p", "i", "/", "v", "1">>

----------------------------------------------------------------------------
(* Claims *)

\* C1: build returns exactly one descriptor per endpoint held in the tree:
\* the result is as long as the sum of the sizes of all nodes' endpoint maps,
\* every endpoint of the tree is in it and none is in it twice.
C1_BuildOnePerEndpoint ==
    IsSome(descriptors) =>
        /\ Len(Built) = CountEndpoints(Tree)
        /\ {Built[i].route.endpoint : i \in 1..Len(Built)} = EndpointsOf(Tree)
        /\ \A i, j \in 1..Len(Built) :
               Built[i].route.endpoint = Built[j].route.endpoint => i = j
        /\ \A i \in 1..Len(Built) : Built[i].route.kind = "Handler"

\* C1 witness: three descriptors from two nodes, two of them with the same
\* path and the same method (one on the root, one inside a `with`), both kept.
C1_Witness ==
    /\ IsSome(descriptors)
    /\ Len(Built) = 3
    /\ Len(Tree.branches) = 1
    /\ \E i, j \in 1..3 :
           /\ i # j
           /\ Built[i].path = Built[j].path
           /\ Built[i].route.method = Built[j].route.method

\* C2: a descriptor's middleware chain is exactly the middleware of the
\* `with` scopes open when its endpoint was declared, outermost first; `at`
\* scopes add nothing.
C2_MiddlewareIsEnclosingWith ==
    IsSome(descriptors) =>
        \A i \in 1..Len(Built) :
            Built[i].middleware = WithArgs(decl[Built[i].route.endpoint])

\* C2 witness: an endpoint inside two nested `with` scopes carries both in
\* nesting order, and an endpoint declared on the root after those scopes
\* closed carries none.
C2_Witness ==
    /\ IsSome(descriptors)
    /\ \E i, j \in 1..Len(Built) :
           /\ Built[i].middleware = <<"mw1", "mw2">>
           /\ Built[j].middleware = <<>>
           /\ Built[j].route.endpoint > Built[i].route.endpoint

\* C3: a descriptor's path is "/" joined, in order, with the segments of the
\* `at` scopes open when its endpoint was declared; `with` scopes leave it
\* unchanged; root endpoints have "/", at("path") then at("subpath") gives
\* "/path/subpath", at("api/v1") gives "/api/v1".
C3_PathIsJoinedSegments ==
    IsSome(descriptors) =>
        \A i \in 1..Len(Built) :
            LET trail == decl[Built[i].route.endpoint]
                ats == SelectSeq(trail, LAMBDA s : s.kind = "at")
            IN  /\ Built[i].path = JoinAll(<<"/">>, trail)
                /\ ats = <<>> => Built[i].path = <<"/">>
                /\ (Len(ats) = 2 /\ ats[1].arg = Str_path /\ ats[2].arg = Str_subpath)
                       => Built[i].path = <<"/">> \o Str_path \o <<"/">> \o Str_subpath
                /\ (Len(ats) = 1 /\ ats[1].arg = Str_api_v1)
                       => Built[i].path = <<"/">> \o Str_api_v1

\* C3 witness: an endpoint under at("path"), a `with`, and at("subpath") is
\* built with the path "/path/subpath".
C3_Witness ==
    /\ IsSome(descriptors)
    /\ \E i \in 1..Len(Built) :
           /\ Built[i].path = <<"/">> \o Str_path \o <<"/">> \o Str_subpath
           /\ Len(Built[i].middleware) = 1

\* C4: for a non-empty path, join gives the path without its trailing
\* slashes, one "/", and the segment without its leading slashes.
C4_JoinOneSeparator ==
    /\ (joined # <<>> /\ before # <<>>) =>
           \E k \in 0..Len(before), j \in 0..Len(Last(joined)) :
               /\ AllSlashes(SubSeq(before, k + 1, Len(before)))
               /\ k = 0 \/ before[k] # "/"
               /\ AllSlashes(SubSeq(Last(joined), 1, j))
               /\ j = Len(Last(joined)) \/ Last(joined)[j + 1] # "/"
               /\ acc = SubSeq(before, 1, k) \o <<"/">>
                            \o SubSeq(Last(joined), j + 1, Len(Last(joined)))
    /\ join(<<"x", "/">>, <<"/", "y">>) = <<"x", "/", "y">>
    /\ join(<<"/", "t", "s", "t", "/", "/", "/", "/">>, <<"/", "/", "/", "t", "s", "t", "/">>)
           = <<"/", "t", "s", "t", "/", "t", "s", "t", "/">>

\* C4 witness: a path ending in a slash joined with a segment starting with
\* slashes.
C4_Witness ==
    /\ Len(joined) = 2
    /\ before = <<"t", "/">>
    /\ Last(joined) = <<"/", "/", "t">>
    /\ acc = <<"t", "/", "t">>

\* C5: joining a segment onto the empty path yields the segment verbatim.
C5_JoinOntoEmpty ==
    (joined # <<>> /\ before = <<>>) => acc = Last(joined)

\* C5 witness: a segment with a leading and a trailing slash joined onto the
\* empty path.
C5_Witness ==
    /\ Len(joined) = 1
    /\ before = <<>>
    /\ acc = <<"/", "t", "/">>

\* C6: after one or more joins from the empty path, the path starts with "/"
\* if the first segment did and ends with "/" if the last segment did.
C6_SlashesPreserved ==
    joined # <<>> =>
        /\ (joined[1] # <<>> /\ joined[1][1] = "/") => (acc # <<>> /\ acc[1] = "/")
        /\ (Last(joined) # <<>> /\ Last(Last(joined)) = "/")
               => (acc # <<>> /\ Last(acc) = "/")

\* C6 witness: three joins, the first segment with a leading slash, the last
\* one nothing but a slash.
C6_Witness ==
    /\ Len(joined) = 3
    /\ joined[1] = <<"/", "t">>
    /\ joined[3] = <<"/">>
    /\ acc[1] = "/"
    /\ Last(acc) = "/"

\* C7 (as claimed): name on a node whose name is set yields a DuplicateName
\* error value, and name on a node without a name sets it and returns the node.
C7_DuplicateNameIsError ==
    (lastCall.op = "name" /\ Unwrap(lastCall.self).ok) =>
        IF IsSome(Unwrap(lastCall.self).val.name)
        THEN phase # "panicked" /\ ~Top.ok /\ Top.val = "DuplicateName"
        ELSE phase # "panicked" /\ Top.ok /\ IsSome(Top.val.name)

\* C8: an error a closure returns reaches the outermost result intact: from
\* then on the innermost builder value is that error, whatever was called on
\* it and however many scopes have returned, and nothing is built from it.
C8_ErrorPropagates ==
    IsSome(origErr) =>
        /\ ~Top.ok
        /\ Top.val = Unwrap(origErr)
        /\ \A i \in 1..(Len(stack) - 1) : stack[i].ok
        /\ phase = "building"
        /\ descriptors = None
        /\ router = None

\* C8 witness: the error has come back to the root chain and a later call
\* was made on it.
C8_Witness ==
    /\ IsSome(origErr)
    /\ Len(stack) = 1
    /\ calls >= 3
    /\ lastCall.op \in {"at", "with", "method", "all", "name"}
    /\ ~Unwrap(lastCall.self).ok

\* C9: a name set on exactly one node resolves to that node's composed path.
C9_ResolveGivesNodePath ==
    IsSome(resolved) =>
        LET n == Unwrap(resolved).name
            hits == SelectSeq(nameLog, LAMBDA e : e.name = n)
        IN  Len(hits) = 1 =>
                /\ ~Unwrap(resolved).out.panic
                /\ Unwrap(resolved).out.val = JoinAll(<<"/">>, hits[1].trail)

\* C9 witness: the name of a node under a `with` and an at("path") resolves
\* to "/path" while another node carries another name.
C9_Witness ==
    /\ IsSome(resolved)
    /\ ~Unwrap(resolved).out.panic
    /\ Unwrap(resolved).out.val = <<"/">> \o Str_path
    /\ Len(nameLog) = 2
    /\ nameLog[1].name # nameLog[2].name
    /\ \E e \in {nameLog[1], nameLog[2]} :
           /\ e.name = Unwrap(resolved).name
           /\ Len(e.trail) = 2

\* C10 (as claimed): resolving a name that was never inserted returns a
\* NotFound error to the caller, without a fault.
C10_UnknownNameIsNotFound ==
    (IsSome(resolved) /\ Unwrap(resolved).name \notin DOMAIN Unwrap(router).routes) =>
        /\ ~Unwrap(resolved).out.panic
        /\ Unwrap(resolved).out.val = "NotFound"

\* C11 (as claimed): after register, every descriptor's handler is on the
\* server at its path, for its method or as a catch-all, wrapped by the
\* middleware of the descriptor's chain in chain order.
C11_RegisteredWithMiddleware ==
    IsSome(descriptors) =>
        /\ Len(server) = Len(Built)
        /\ \A i \in 1..Len(Built) :
               /\ server[i].path = Built[i].path
               /\ server[i].method = Built[i].route.method
               /\ server[i].endpoint = Built[i].route.endpoint
               /\ server[i].middleware = Built[i].middleware

\* The path a chain of joins from the empty path gives
RECURSIVE JoinChain(_)
JoinChain(segs) ==
    IF segs = <<>> THEN PathNew
    ELSE join(JoinChain(SubSeq(segs, 1, Len(segs) - 1)), Last(segs))

\* C12: join is associative: joining b and then c onto a path gives what
\* joining join(b, c) onto that path gives.
C12_JoinAssociative ==
    Len(joined) >= 2 =>
        LET n == Len(joined)
            a == JoinChain(SubSeq(joined, 1, n - 2))
        IN  acc = join(a, join(joined[n - 1], joined[n]))

\* C12 witness: three segments with slashes on both sides of each join point.
C12_Witness ==
    /\ joined = << <<"t", "/">>, <<"/", "t", "/">>, <<"/", "t">> >>
    /\ acc = <<"t", "/", "t", "/", "t">>

\* s has a run of two or more slashes with another character before it
\* and after it
HasInnerRun(s) ==
    \E i \in 2..(Len(s) - 2) :
        /\ s[i] = "/" /\ s[i + 1] = "/"
        /\ \E h \in 1..(i - 1) : s[h] # "/"
        /\ \E k \in (i + 2)..Len(s) : s[k] # "/"

\* C16 (as claimed): after joining a segment with a run of slashes strictly
\* inside it, the part of the result the segment gave has no two
\* consecutive slashes.
C16_InnerRunsCollapse ==
    (joined # <<>> /\ HasInnerRun(Last(joined))) =>
        \A i \in 1..(Len(acc) - 1) :
            i > Len(acc) - Len(Last(joined)) => ~(acc[i] = "/" /\ acc[i + 1] = "/")

\* C16 (amended): a run of slashes strictly inside a segment is kept as
\* supplied: the result ends with the segment as it stands after its leading
\* slashes, the run included.
C16_InnerRunsKept ==
    (joined # <<>> /\ HasInnerRun(Last(joined))) =>
        LET seg == Last(joined)
        IN  \E j \in 0..(Len(seg) - 1) :
                /\ AllSlashes(SubSeq(seg, 1, j))
                /\ seg[j + 1] # "/"
                /\ Len(acc) >= Len(seg) - j
                /\ SubSeq(acc, Len(acc) - (Len(seg) - j) + 1, Len(acc))
                       = SubSeq(seg, j + 1, Len(seg))

\* C16 witness: "b//c" joined onto "t" gives "t/b//c".
C16_Witness ==
    /\ before = <<"t">>
    /\ Last(joined) = <<"b", "/", "/", "c">>
    /\ acc = <<"t", "/", "b", "/", "/", "c">>

----------------------------------------------------------------------------
(* Places in a tree: a node's address is the sequence of branch indices    *)
(* leading to it from the root.                                            *)

\* The address of the node that holds endpoint h
RECURSIVE AddrOf(_, _), AddrIn(_, _, _)
AddrOf(node, h) ==
    IF h \in {node.endpoints[k] : k \in DOMAIN node.endpoints} THEN <<>>
    ELSE AddrIn(node.branches, h, 1)
AddrIn(branches, h, k) ==
    IF k > Len(branches) THEN <<0>>
    ELSE IF h \in EndpointsOf(branches[k]) THEN <<k>> \o AddrOf(branches[k], h)
    ELSE AddrIn(branches, h, k + 1)

\* a is b or comes before b in the depth-first order that visits a node
\* before its branches and the branches in insertion order
PreLE(a, b) ==
    \/ Len(a) <= Len(b) /\ SubSeq(b, 1, Len(a)) = a
    \/ \E k \in 1..Len(a) :
           /\ k <= Len(b)
           /\ SubSeq(a, 1, k - 1) = SubSeq(b, 1, k - 1)
           /\ a[k] < b[k]

\* The named nodes of a tree, each with its address, name and path
RECURSIVE NamedNodes(_, _)
NamedNodes(node, addr) ==
    (IF IsSome(node.name)
     THEN {[addr |-> addr, name |-> Unwrap(node.name), path |-> node.path]}
     ELSE {})
    \cup UNION {NamedNodes(node.branches[k], Append(addr, k)) : k \in 1..Len(node.branches)}

\* C13: build emits descriptors in depth-first pre-order: a node's own
\* descriptors before those of its descendants, each branch's output
\* contiguous, the branches in insertion order.
C13_BuildPreOrder ==
    IsSome(descriptors) =>
        \A i, j \in 1..Len(Built) :
            i < j => PreLE(AddrOf(Tree, Built[i].route.endpoint),
                           AddrOf(Tree, Built[j].route.endpoint))

\* C13 witness: a node's endpoint declared after its branch was populated
\* is emitted before the branch's endpoint.
C13_Witness ==
    /\ IsSome(descriptors)
    /\ Len(Built) = 2
    /\ Built[1].route.endpoint = 2
    /\ Built[2].route.endpoint = 1
    /\ AddrOf(Tree, 2) = <<1>>
    /\ AddrOf(Tree, 1) = <<1, 1>>

\* C15: reverse_router holds exactly one entry per distinct name of the
\* tree, and a name maps to the path of the last node in depth-first order
\* that carries it.
C15_LastNamedNodeWins ==
    IsSome(router) =>
        LET nn == NamedNodes(Tree, <<>>)
            routes == Unwrap(router).routes
        IN  /\ DOMAIN routes = {x.name : x \in nn}
            /\ \A x \in nn :
                   (\A y \in nn : y.name = x.name => PreLE(y.addr, x.addr))
                       => routes[x.name] = x.path

\* C15 witness: the root and a node under an `at` carry the same name, the
\* root named last by the calls but visited first; the name maps to the
\* path of the node under the `at`.
C15_Witness ==
    /\ IsSome(router)
    /\ Len(nameLog) = 2
    /\ nameLog[1].name = nameLog[2].name
    /\ Len(nameLog[1].trail) = 1
    /\ nameLog[1].trail[1].kind = "at"
    /\ nameLog[2].trail = <<>>
    /\ Unwrap(router).routes[nameLog[1].name] = <<"/">> \o nameLog[1].trail[1].arg

\* C14: a method / all call on a node puts its handler under its key,
\* replacing the handler the key had, and leaves the handlers of the node's
\* other keys, the node's branches and every other open node as they were;
\* a node holds one handler per key.
C14_LastHandlerWins ==
    [][ (lastCall'.op \in {"method", "all"} /\ calls' = calls + 1 /\ Top.ok) =>
          LET old == Top.val.endpoints
              new == stack'[Len(stack)]
              k == IF lastCall'.op = "all" THEN None ELSE Some(Unwrap(lastCall'.arg))
          IN  /\ Len(stack') = Len(stack)
              /\ new.ok
              /\ Len(decl') = Len(decl) + 1
              /\ DOMAIN new.val.endpoints = (DOMAIN old) \cup {k}
              /\ new.val.endpoints[k] = Len(decl')
              /\ \A x \in (DOMAIN old) \ {k} : new.val.endpoints[x] = old[x]
              /\ new.val.branches = Top.val.branches
              /\ \A i \in 1..(Len(stack) - 1) : stack'[i] = stack[i]
      ]_vars

\* C14 witness: GET declared on the root, GET declared on a `with` branch
\* (same path), GET declared again on the root: the root holds the third
\* handler, the branch still holds the second.
C14_Witness ==
    /\ lastCall.op = "method"
    /\ Len(stack) = 1
    /\ Top.ok
    /\ Len(decl) = 3
    /\ DOMAIN Top.val.endpoints = {Some("GET")}
    /\ Top.val.endpoints[Some("GET")] = 3
    /\ Unwrap(lastCall.self).ok
    /\ DOMAIN Unwrap(lastCall.self).val.endpoints = {Some("GET")}
    /\ Unwrap(lastCall.self).val.endpoints[Some("GET")] = 1
    /\ Len(Top.val.branches) = 1
    /\ Top.val.branches[1].path = Top.val.path
    /\ DOMAIN Top.val.branches[1].endpoints = {Some("GET")}
    /\ Top.val.branches[1].endpoints[Some("GET")] = 2

\* C17: reverse_router leaves the tree as it is, so that the map of an
\* earlier call is the map a call would give now, and build works on the
\* tree the calls constructed.
C17_ReverseRouterReadsOnly ==
    /\ [](IsSome(router) => Unwrap(router) = reverse_router(Tree))
    /\ [][phase' = "routed" => stack' = stack]_vars

\* C17 witness: a tree with a named node and an endpoint was routed and
\* then built.
C17_Witness ==
    /\ IsSome(router)
    /\ IsSome(descriptors)
    /\ DOMAIN Unwrap(router).routes # {}
    /\ Len(Built) >= 1
    /\ Len(Tree.branches) >= 1

====
